---- MODULE Spec2Model ----
(***************************************************************************)
(* Duplicate-session detector of broadcast-channel-api-poc (src/main.js,   *)
(* src/utils.js): every page load is a session instance that runs the      *)
(* hash-query / hash-claim handshake over one BroadcastChannel.            *)
(*                                                                         *)
(* One action is one task of a page's event loop together with the         *)
(* microtasks it triggers (the continuation of `await checkForDuplicates`  *)
(* runs in the microtask checkpoint of the task that called resolve).      *)
(* The message field `timestamp` is left out: no handler of main.js reads  *)
(* it.  Strings (hashes, query ids) are opaque: only equality is observed, *)
(* so they are numbered.                                                   *)
(***************************************************************************)
EXTENDS Naturals, Sequences, FiniteSets

\* ------------------------------------------------------------------ bounds

\* Page loads (session instances) in one run.
NumInst == 3
\* Distinct values of the `hash` URL parameter.
NumHashes == 2
\* Distinct values `query-${Date.now()}-${Math.random()...}` can take; two
\* instances may draw the same one.
NumQueryIds == 3

\* Page loads in the runs checked under fairness.
NumFairInst == 2

\* Page loads in the runs with other posters on the channel.
NumOpenBusInst == 2

Inst == 1..NumInst
Hashes == 1..NumHashes
QueryIds == 1..NumQueryIds

\* A field a message does not have (JavaScript `undefined`); also the value
\* of a constant of a page that has not loaded yet.
Undefined == 0

\* --------------------------------------------------- utils.js: MESSAGE_TYPES

SESSION_HASH_QUERY == "session-hash-query"
SESSION_HASH_CLAIM == "session-hash-claim"
SESSION_REGISTERED == "session-registered"
SESSION_CLOSED == "session-closed"
\* A type of the controller demo, which main.js has no case for.
BROADCAST == "broadcast"

\* ------------------------------------------- utils.js: message factories
\* `src` is not a field of the wire message: it records which instance's
\* channel.postMessage sent it (PostedBy fills it in).  No handler reads it.

CreateBaseMessage(type) ==
    [type |-> type, hash |-> Undefined, queryId |-> Undefined,
     sessionId |-> Undefined, src |-> Undefined]

\* Fault variant of CreateHashQueryMessage: the arguments are swapped.
MutQuerySwapsFields(hash, qid) ==
    [CreateBaseMessage(SESSION_HASH_QUERY) EXCEPT !.hash = qid, !.queryId = hash]

CreateHashQueryMessage(hash, qid) ==
    [CreateBaseMessage(SESSION_HASH_QUERY) EXCEPT !.hash = hash, !.queryId = qid]

\* Fault variant of CreateHashClaimMessage: the answer echoes the responder's
\* id where the query's id belongs.
MutClaimEchoesResponder(hash, qid, sid) ==
    [CreateBaseMessage(SESSION_HASH_CLAIM) EXCEPT
        !.hash = hash, !.queryId = sid, !.sessionId = sid]

CreateHashClaimMessage(hash, qid, sid) ==
    [CreateBaseMessage(SESSION_HASH_CLAIM) EXCEPT
        !.hash = hash, !.queryId = qid, !.sessionId = sid]

\* Fault variant of CreateSessionRegisteredMessage: the hash is left out.
MutRegisteredOmitsHash(sid, hash) ==
    [CreateBaseMessage(SESSION_REGISTERED) EXCEPT !.sessionId = sid]

CreateSessionRegisteredMessage(sid, hash) ==
    [CreateBaseMessage(SESSION_REGISTERED) EXCEPT !.sessionId = sid, !.hash = hash]

CreateSessionClosedMessage(sid) ==
    [CreateBaseMessage(SESSION_CLOSED) EXCEPT !.sessionId = sid]

\* ------------------------------------------------------------------- state

VARIABLES
    page,                  \* "none" (not loaded yet), "loaded", "gone" (unloaded)
    sessionHash,           \* main.js:43
    queryId,               \* main.js:117
    isVerified,            \* main.js:78
    isClosingAsDuplicate,  \* main.js:81
    chanOpen,              \* the BroadcastChannel of main.js:34 is not closed
    claimListener,         \* handleClaim is subscribed (main.js:135/130/139)
    checkTimer,            \* the timer of main.js:138: "unset", "pending", "fired"
    closeTimer,            \* pending timers of main.js:158
    resolveCalls,          \* the arguments `resolve` of main.js:116 was called with, in order
    closeAsDuplicateRuns,  \* how many times closeAsDuplicate ran
    bodyReplaced,          \* document.body.innerHTML was replaced (main.js:163/197)
    postError,             \* a channel.postMessage threw InvalidStateError (closed channel)
    inbox,                 \* message tasks queued for each instance's channel, in order
    ownersAtStart,         \* the verified, connected same-hash instances when the page loaded
    rivalsAtStart,         \* the connected same-hash instances then still checking
    last                   \* the last step: its operation, instance, event and posted messages

vars == <<page, sessionHash, queryId, isVerified, isClosingAsDuplicate, chanOpen,
          claimListener, checkTimer, closeTimer, resolveCalls, closeAsDuplicateRuns,
          bodyReplaced, postError, inbox, ownersAtStart, rivalsAtStart, last>>

\* -------------------------------------------- state of the controller demo
\* The controller page (src/utils.js:136-357) and the session tabs it
\* launches (src/unnamed/part_002).

NumTabs == 2
MaxCounter == 2
MaxCtrlLoads == 2
MaxQueue == 2
MaxTimers == 2

Tabs == 1..NumTabs
\* n stands for the string `Session-${n}` of utils.js:222
SessionIds == 1..MaxCounter

VARIABLES
    ctrlPage,        \* the controller page: "none", "loaded", "gone"
    ctrlLoads,       \* how many times the controller page has loaded
    activeSessions,  \* utils.js:164, the keys of the Map
    sessionCounter,  \* utils.js:165
    ctrlInbox,       \* message tasks queued for the controller's channel
    tabPage,         \* "none", "opening" (window.open called), "loaded", "gone"
    tabSessionId,    \* part_002:27
    tabChanOpen,     \* the BroadcastChannel of part_002:21 is not closed
    tabInbox,        \* message tasks queued for each tab's channel
    tabCloseTimer,   \* pending timers of part_002:158/164
    tabPostError,    \* a channel.postMessage of the tab threw (closed channel)
    lifecycle,       \* per id, the last lifecycle message this controller processed
    demoLast         \* the last step of the demo

demoVars == <<ctrlPage, ctrlLoads, activeSessions, sessionCounter, ctrlInbox,
              tabPage, tabSessionId, tabChanOpen, tabInbox, tabCloseTimer,
              tabPostError, lifecycle, demoLast>>

allVars == <<vars, demoVars>>

\* main.js:311-326, MESSAGE_TYPES of the controller demo
CONTROLLER_READY == "controller-ready"
DIRECT_MESSAGE == "direct-message"
CLOSE_SESSION == "close-session"
CLOSE_ALL == "close-all"
CONTROLLER_CLOSING == "controller-closing"
SESSION_MESSAGE == "session-message"
SESSION_PING == "session-ping"

\* A message of the demo as the bus carries it. A field a factory does not
\* set is Undefined ("" for source); `from` is the posting page (Undefined
\* for the controller), which the bus knows and the payload does not carry.
\* The free texts (message, data) and the timestamp steer nothing and are
\* left out.
DemoBaseMessage(type) ==
    [type |-> type, source |-> "", sessionId |-> Undefined,
     targetSession |-> Undefined, from |-> Undefined]

\* main.js:386
CreateBroadcastMessage ==
    [DemoBaseMessage(BROADCAST) EXCEPT !.source = "controller"]

\* main.js:400
CreateDirectMessage(targetSession) ==
    [DemoBaseMessage(DIRECT_MESSAGE) EXCEPT !.source = "controller",
                                            !.targetSession = targetSession]

\* main.js:414
CreateCloseSessionMessage(targetSession) ==
    [DemoBaseMessage(CLOSE_SESSION) EXCEPT !.source = "controller",
                                           !.targetSession = targetSession]

\* main.js:426
CreateCloseAllMessage ==
    [DemoBaseMessage(CLOSE_ALL) EXCEPT !.source = "controller"]

\* main.js:437
CreateControllerReadyMessage ==
    [DemoBaseMessage(CONTROLLER_READY) EXCEPT !.source = "controller"]

\* main.js:448
CreateControllerClosingMessage ==
    [DemoBaseMessage(CONTROLLER_CLOSING) EXCEPT !.source = "controller"]

\* main.js:461
DemoSessionRegisteredMessage(sessionId) ==
    [DemoBaseMessage(SESSION_REGISTERED) EXCEPT !.sessionId = sessionId]

\* main.js:474
DemoSessionClosedMessage(sessionId) ==
    [DemoBaseMessage(SESSION_CLOSED) EXCEPT !.sessionId = sessionId]

\* main.js:487
CreateSessionMessage(sessionId) ==
    [DemoBaseMessage(SESSION_MESSAGE) EXCEPT !.sessionId = sessionId]

\* main.js:500
CreateSessionPingMessage(sessionId) ==
    [DemoBaseMessage(SESSION_PING) EXCEPT !.sessionId = sessionId]

NoDemoMessage == DemoBaseMessage("none")

\* The messages as posted by page `sender`.
DemoPostedBy(sender, msgs) ==
    [k \in 1..Len(msgs) |-> [msgs[k] EXCEPT !.from = sender]]

DemoStep(op, t, event, branch, msgs) ==
    [op |-> op, tab |-> t, event |-> event, branch |-> branch,
     posts |-> DemoPostedBy(t, msgs)]

\* main.js:46  const sessionId = sessionHash
SessionId(i) == sessionHash[i]

\* The state of the promise of checkForDuplicates: the first resolve call settles it.
Outcome(i) ==
    IF resolveCalls[i] = <<>> THEN "pending"
    ELSE IF Head(resolveCalls[i]) THEN "Unique" ELSE "Duplicate"

Connected(i) == page[i] = "loaded" /\ chanOpen[i]

Loaded == {i \in Inst : page[i] # "none"}

\* ---------------------------------------------------------------- the bus
\* BroadcastChannel.postMessage queues one task per other channel of the same
\* name that is open at that moment; the sender gets none.  A destination
\* closed before its task runs drops it.

PostedBy(i, msgs) == [k \in 1..Len(msgs) |-> [msgs[k] EXCEPT !.src = i]]

\* Fault variant of Broadcast: a bus that echoes a message to its sender too.
MutBroadcastEchoes(box, i, msgs) ==
    [j \in Inst |-> IF j = i \/ (page[j] = "loaded" /\ chanOpen[j])
                    THEN box[j] \o [k \in 1..Len(msgs) |-> [msgs[k] EXCEPT !.src = i]]
                    ELSE box[j]]

Broadcast(box, i, msgs) ==
    [j \in Inst |-> IF j # i /\ Connected(j) THEN box[j] \o PostedBy(i, msgs)
                    ELSE box[j]]

NoMessage == CreateBaseMessage("none")

\* The record of a step: `event` is the message dispatched and `branch` the
\* branch handleMessage took on it (Deliver only), `posts` the messages handed
\* to channel.postMessage, in order.
Step(op, i, event, branch, msgs) ==
    [op |-> op, inst |-> i, event |-> event, branch |-> branch,
     posts |-> PostedBy(i, msgs)]

Init ==
    /\ page = [i \in Inst |-> "none"]
    /\ sessionHash = [i \in Inst |-> Undefined]
    /\ queryId = [i \in Inst |-> Undefined]
    /\ isVerified = [i \in Inst |-> FALSE]
    /\ isClosingAsDuplicate = [i \in Inst |-> FALSE]
    /\ chanOpen = [i \in Inst |-> FALSE]
    /\ claimListener = [i \in Inst |-> FALSE]
    /\ checkTimer = [i \in Inst |-> "unset"]
    /\ closeTimer = [i \in Inst |-> 0]
    /\ resolveCalls = [i \in Inst |-> <<>>]
    /\ closeAsDuplicateRuns = [i \in Inst |-> 0]
    /\ bodyReplaced = [i \in Inst |-> FALSE]
    /\ postError = [i \in Inst |-> FALSE]
    /\ inbox = [i \in Inst |-> <<>>]
    /\ ownersAtStart = [i \in Inst |-> {}]
    /\ rivalsAtStart = [i \in Inst |-> {}]
    /\ last = Step("Init", Undefined, NoMessage, "", <<>>)
    /\ ctrlPage = "none"
    /\ ctrlLoads = 0
    /\ activeSessions = {}
    /\ sessionCounter = 0
    /\ ctrlInbox = <<>>
    /\ tabPage = [t \in Tabs |-> "none"]
    /\ tabSessionId = [t \in Tabs |-> Undefined]
    /\ tabChanOpen = [t \in Tabs |-> FALSE]
    /\ tabInbox = [t \in Tabs |-> <<>>]
    /\ tabCloseTimer = [t \in Tabs |-> 0]
    /\ tabPostError = [t \in Tabs |-> FALSE]
    /\ lifecycle = [id \in SessionIds |-> "none"]
    /\ demoLast = DemoStep("Init", Undefined, NoDemoMessage, "", <<>>)

\* --------------------------------------------------------------- page load
\* The module body of main.js runs: channel opened (34), identity read from
\* the URL (40-46), handlers installed (247-262), initialize() (287) runs
\* checkForDuplicates up to the await: handleClaim subscribed, the hash-query
\* posted, the timeout armed.
\* Pages load in the order of their numbers, and a hash or query id is
\* either one an earlier page has or the next unused number: instances and
\* opaque strings are interchangeable, so this loses no behaviour.

UsedHashes == {sessionHash[j] : j \in Loaded}
UsedQueryIds == {queryId[j] : j \in Loaded}

FreshOrUsed(used, all) == {v \in all : v <= Cardinality(used) + 1}

Start(i, h, q) ==
    /\ page[i] = "none"
    /\ \A j \in Inst : j < i => page[j] # "none"
    /\ h \in FreshOrUsed(UsedHashes, Hashes)
    /\ q \in FreshOrUsed(UsedQueryIds, QueryIds)
    /\ page' = [page EXCEPT ![i] = "loaded"]
    /\ sessionHash' = [sessionHash EXCEPT ![i] = h]
    /\ queryId' = [queryId EXCEPT ![i] = q]
    /\ chanOpen' = [chanOpen EXCEPT ![i] = TRUE]
    /\ claimListener' = [claimListener EXCEPT ![i] = TRUE]
    /\ checkTimer' = [checkTimer EXCEPT ![i] = "pending"]
    /\ inbox' = Broadcast(inbox, i, <<CreateHashQueryMessage(h, q)>>)
    /\ last' = Step("Start", i, NoMessage, "", <<CreateHashQueryMessage(h, q)>>)
    /\ ownersAtStart' = [ownersAtStart EXCEPT ![i] =
            {j \in Inst : Connected(j) /\ sessionHash[j] = h /\ isVerified[j]}]
    /\ rivalsAtStart' = [rivalsAtStart EXCEPT ![i] =
            {j \in Inst : Connected(j) /\ sessionHash[j] = h /\ checkTimer[j] = "pending"}]
    /\ UNCHANGED <<isVerified, isClosingAsDuplicate, closeTimer, resolveCalls,
                   closeAsDuplicateRuns, bodyReplaced, postError>>
    /\ UNCHANGED demoVars

\* ---------------------------------------------------------- fault variants
\* Each is a one-line change of a condition of main.js; a property that the
\* code decides fails when the variant takes the condition's place.

\* main.js:218 without the isVerified test
MutShouldClaimUnverified(i, m) == m.hash = sessionHash[i]

\* main.js:218 without the hash comparison
MutShouldClaimAnyHash(i, m) == isVerified[i]

\* main.js:218 comparing the sessionId field, which a hash-query lacks
MutShouldClaimWrongField(i, m) == isVerified[i] /\ m.sessionId = sessionHash[i]

\* main.js:128 without the queryId comparison
MutClaimMatchesAnyQuery(i, m) ==
    m.type = SESSION_HASH_CLAIM /\ m.hash = sessionHash[i]

\* main.js:128 comparing the claim's queryId with the session identifier
MutClaimMatchesWrongId(i, m) ==
    /\ m.type = SESSION_HASH_CLAIM
    /\ m.queryId = sessionHash[i]
    /\ m.hash = sessionHash[i]

\* main.js:130 left out: handleClaim stays subscribed
MutListenerKept == TRUE

\* main.js:141 without the isClosingAsDuplicate test
MutTimeoutAlwaysResolves(i) == TRUE

\* main.js:141 with the test inverted
MutTimeoutInverted(i) == isClosingAsDuplicate[i]

\* main.js:159 left out: the teardown timer does not close the channel
MutChannelKeptOpen == TRUE

\* main.js:243-245 replaced by a handler that gives the session up: the
\* channel is closed on a deserialization error
MutMessageErrorCloses(i) == FALSE

\* main.js:190 and 193 in the other order: the channel is closed first, so
\* postMessage throws and nothing is posted
MutCloseBeforePost(i) == <<>>

\* main.js:139 left out: handleClaim stays subscribed after the timeout
MutListenerKeptAfterTimeout(was) == was

\* ------------------------------------------------------ message delivery

\* main.js:218  the condition under which handleMessage answers a hash-query
ShouldClaim(i, m) == isVerified[i] /\ m.hash = sessionHash[i]

\* main.js:227  "Skip our own messages"
IsOwnMessage(i, m) == m.sessionId = SessionId(i)

\* main.js:213-238  handleMessage: the branch it takes on message m.  Only
\* "claim" posts; "sibling-opened" and "sibling-closed" write a log line.
HandleMessageBranch(i, m) ==
    IF m.type = SESSION_HASH_QUERY
    THEN IF ShouldClaim(i, m) THEN "claim" ELSE "query-ignored"
    ELSE IF IsOwnMessage(i, m) THEN "own"
    ELSE IF m.type = SESSION_REGISTERED THEN "sibling-opened"
    ELSE IF m.type = SESSION_CLOSED THEN "sibling-closed"
    ELSE "ignored"

\* main.js:220  the messages handleMessage posts
HandleMessagePosts(i, m) ==
    IF HandleMessageBranch(i, m) = "claim"
    THEN <<CreateHashClaimMessage(sessionHash[i], m.queryId, SessionId(i))>>
    ELSE <<>>

\* main.js:128  the condition under which handleClaim resolves the check
ClaimMatches(i, m) ==
    /\ m.type = SESSION_HASH_CLAIM
    /\ m.queryId = queryId[i]
    /\ m.hash = sessionHash[i]

\* main.js:130  handleClaim unsubscribes itself on a match: is it still
\* subscribed afterwards?
ListenerAfterMatch == FALSE

\* main.js:116, 275  a promise is settled by the first call of resolve only:
\* the continuation of `await` runs iff resolve had not been called before.
ContinuationRuns(calls) == calls = <<>>

\* One message task of instance i: the event goes to channel.onmessage
\* (handleMessage, installed at main.js:247) and then to handleClaim if that is
\* still subscribed (main.js:135); a match calls resolve(false), and the
\* continuation of initialize (main.js:282-284) runs closeAsDuplicate
\* (main.js:152-171): flag set, teardown timer armed.
Deliver(i) ==
    /\ Connected(i)
    /\ inbox[i] # <<>>
    /\ LET m == Head(inbox[i])
           posts == HandleMessagePosts(i, m)
           hit == claimListener[i] /\ ClaimMatches(i, m)
           cont == hit /\ ContinuationRuns(resolveCalls[i])
       IN  /\ inbox' = Broadcast([inbox EXCEPT ![i] = Tail(@)], i, posts)
           /\ last' = Step("Deliver", i, m, HandleMessageBranch(i, m), posts)
           /\ claimListener' = [claimListener EXCEPT ![i] =
                    IF hit THEN ListenerAfterMatch ELSE @]
           /\ resolveCalls' = [resolveCalls EXCEPT ![i] =
                    IF hit THEN Append(@, FALSE) ELSE @]
           /\ isClosingAsDuplicate' = [isClosingAsDuplicate EXCEPT ![i] =
                    IF cont THEN TRUE ELSE @]
           /\ closeTimer' = [closeTimer EXCEPT ![i] = IF cont THEN @ + 1 ELSE @]
           /\ closeAsDuplicateRuns' = [closeAsDuplicateRuns EXCEPT ![i] =
                    IF cont THEN @ + 1 ELSE @]
    /\ UNCHANGED <<page, sessionHash, queryId, isVerified, chanOpen, checkTimer,
                   bodyReplaced, postError, ownersAtStart, rivalsAtStart>>
    /\ UNCHANGED demoVars

\* ------------------------------------------------- duplicate-check timeout

\* main.js:141  the condition under which the timeout callback calls resolve(true)
TimeoutResolves(i) == ~isClosingAsDuplicate[i]

\* main.js:139  the timeout callback unsubscribes handleClaim: is it still
\* subscribed afterwards (`was`: whether it was subscribed before)?
ListenerAfterTimeout(was) == FALSE

\* main.js:180-184  registerSession: the messages it posts
RegisterSessionPosts(i) ==
    <<CreateSessionRegisteredMessage(SessionId(i), sessionHash[i])>>

\* main.js:138-145, then main.js:277-281: the callback unsubscribes handleClaim
\* and calls resolve(true) unless the session is closing as a duplicate; the
\* continuation of initialize sets isVerified and runs registerSession, whose
\* postMessage throws if the channel was closed meanwhile.
TimeoutFire(i) ==
    /\ page[i] = "loaded"
    /\ checkTimer[i] = "pending"
    /\ LET res == TimeoutResolves(i)
           cont == res /\ ContinuationRuns(resolveCalls[i])
           posts == IF cont /\ chanOpen[i] THEN RegisterSessionPosts(i) ELSE <<>>
       IN  /\ checkTimer' = [checkTimer EXCEPT ![i] = "fired"]
           /\ claimListener' = [claimListener EXCEPT ![i] = ListenerAfterTimeout(@)]
           /\ resolveCalls' = [resolveCalls EXCEPT ![i] =
                    IF res THEN Append(@, TRUE) ELSE @]
           /\ isVerified' = [isVerified EXCEPT ![i] = IF cont THEN TRUE ELSE @]
           /\ postError' = [postError EXCEPT ![i] =
                    IF cont /\ ~chanOpen[i] THEN TRUE ELSE @]
           /\ inbox' = Broadcast(inbox, i, posts)
           /\ last' = Step("TimeoutFire", i, NoMessage, "", posts)
    /\ UNCHANGED <<page, sessionHash, queryId, isClosingAsDuplicate, chanOpen,
                   closeTimer, closeAsDuplicateRuns, bodyReplaced,
                   ownersAtStart, rivalsAtStart>>
    /\ UNCHANGED demoVars

\* main.js:159  channel.close() in the teardown timer: is the channel open
\* afterwards?
ChannelAfterTeardown == FALSE

\* main.js:158-170  the teardown timer of closeAsDuplicate: channel closed,
\* window.close() attempted, page body replaced.  A timer of 500 ms set after
\* the 300 ms one of the same page runs after it (the timer ordering rule of
\* the HTML standard).
CloseTimerFire(i) ==
    /\ page[i] = "loaded"
    /\ closeTimer[i] > 0
    /\ checkTimer[i] # "pending"
    /\ closeTimer' = [closeTimer EXCEPT ![i] = @ - 1]
    /\ chanOpen' = [chanOpen EXCEPT ![i] = ChannelAfterTeardown]
    /\ inbox' = [inbox EXCEPT ![i] = <<>>]
    /\ bodyReplaced' = [bodyReplaced EXCEPT ![i] = TRUE]
    /\ last' = Step("CloseTimerFire", i, NoMessage, "", <<>>)
    /\ UNCHANGED <<page, sessionHash, queryId, isVerified, isClosingAsDuplicate,
                   claimListener, checkTimer, resolveCalls, closeAsDuplicateRuns,
                   postError, ownersAtStart, rivalsAtStart>>
    /\ UNCHANGED demoVars

\* ------------------------------------------------------------------ closing

\* main.js:190  what closeSession posts while the channel is still open
CloseSessionPosts(i) == <<CreateSessionClosedMessage(SessionId(i))>>

\* main.js:193 left out
MutCloseSessionKeepsChannel == TRUE

\* main.js:193  channel.close() in closeSession: is the channel open
\* afterwards?
ChannelAfterCloseSession == FALSE

\* main.js:189-203, 254  a click on the close button runs closeSession.  The
\* button is part of the page body, so it can be clicked only while the body
\* has not been replaced.  postMessage on a closed channel throws, which ends
\* the function.  Whether window.close() then unloads the page is the
\* browser's choice: BeforeUnload may or may not follow.
CloseSession(i) ==
    /\ page[i] = "loaded"
    /\ ~bodyReplaced[i]
    /\ IF chanOpen[i]
       THEN /\ last' = Step("CloseSession", i, NoMessage, "", CloseSessionPosts(i))
            /\ inbox' = [Broadcast(inbox, i, CloseSessionPosts(i)) EXCEPT ![i] = <<>>]
            /\ chanOpen' = [chanOpen EXCEPT ![i] = ChannelAfterCloseSession]
            /\ bodyReplaced' = [bodyReplaced EXCEPT ![i] = TRUE]
            /\ UNCHANGED postError
       ELSE /\ postError' = [postError EXCEPT ![i] = TRUE]
            /\ last' = Step("CloseSession", i, NoMessage, "", <<>>)
            /\ UNCHANGED <<inbox, chanOpen, bodyReplaced>>
    /\ UNCHANGED <<page, sessionHash, queryId, isVerified, isClosingAsDuplicate,
                   claimListener, checkTimer, closeTimer, resolveCalls,
                   closeAsDuplicateRuns, ownersAtStart, rivalsAtStart>>
    /\ UNCHANGED demoVars

\* main.js:256-262  the page unloads (tab closed, navigation, or a
\* window.close() that the browser allowed): the beforeunload listener posts
\* session-closed unless closing as a duplicate (which throws on a closed
\* channel), then closes the channel.  The page is gone then: its timers,
\* listeners and script variables no longer exist, and read as their initial
\* values from here on.
BeforeUnload(i) ==
    /\ page[i] = "loaded"
    /\ LET wants == ~isClosingAsDuplicate[i]
           posts == IF wants /\ chanOpen[i]
                    THEN <<CreateSessionClosedMessage(SessionId(i))>> ELSE <<>>
       IN  /\ last' = Step("BeforeUnload", i, NoMessage, "", posts)
           /\ inbox' = [Broadcast(inbox, i, posts) EXCEPT ![i] = <<>>]
           /\ postError' = [postError EXCEPT ![i] =
                    IF wants /\ ~chanOpen[i] THEN TRUE ELSE @]
    /\ page' = [page EXCEPT ![i] = "gone"]
    /\ chanOpen' = [chanOpen EXCEPT ![i] = FALSE]
    /\ claimListener' = [claimListener EXCEPT ![i] = FALSE]
    /\ checkTimer' = [checkTimer EXCEPT ![i] = "unset"]
    /\ closeTimer' = [closeTimer EXCEPT ![i] = 0]
    /\ isVerified' = [isVerified EXCEPT ![i] = FALSE]
    /\ isClosingAsDuplicate' = [isClosingAsDuplicate EXCEPT ![i] = FALSE]
    /\ resolveCalls' = [resolveCalls EXCEPT ![i] = <<>>]
    /\ closeAsDuplicateRuns' = [closeAsDuplicateRuns EXCEPT ![i] = 0]
    /\ bodyReplaced' = [bodyReplaced EXCEPT ![i] = FALSE]
    /\ ownersAtStart' = [ownersAtStart EXCEPT ![i] = {}]
    /\ rivalsAtStart' = [rivalsAtStart EXCEPT ![i] = {}]
    /\ UNCHANGED <<sessionHash, queryId>>
    /\ UNCHANGED demoVars

\* ------------------------------------------------- other posters on the bus
\* The channel name is shared by every page of the origin (the controller
\* demo of src/utils.js:158 opens the same one), so a session can be handed a
\* message that no session instance built: any of the four types, with any
\* hash, queryId and sessionId, or a payload that fails to deserialize.

ForeignMessages ==
    { [type |-> t, hash |-> h, queryId |-> q, sessionId |-> s, src |-> Undefined] :
        t \in {SESSION_HASH_QUERY, SESSION_HASH_CLAIM, SESSION_REGISTERED, SESSION_CLOSED},
        h \in Hashes, q \in QueryIds, s \in Hashes \cup {Undefined} }
    \cup
    { [CreateBaseMessage(BROADCAST) EXCEPT !.sessionId = s] : s \in Hashes \cup {Undefined} }

\* One foreign message is in flight at a time.
ForeignInFlight ==
    \E j \in Inst : \E k \in 1..Len(inbox[j]) : inbox[j][k].src = Undefined

\* Another page posts m on the channel: a task is queued for every open
\* channel of a session.
Inject(m) ==
    /\ \E j \in Inst : Connected(j)
    /\ ~ForeignInFlight
    /\ inbox' = [j \in Inst |-> IF Connected(j) THEN Append(inbox[j], m) ELSE inbox[j]]
    /\ last' = Step("Inject", Undefined, m, "", <<>>)
    /\ UNCHANGED <<page, sessionHash, queryId, isVerified, isClosingAsDuplicate,
                   chanOpen, claimListener, checkTimer, closeTimer, resolveCalls,
                   closeAsDuplicateRuns, bodyReplaced, postError,
                   ownersAtStart, rivalsAtStart>>
    /\ UNCHANGED demoVars

\* main.js:243-245  does handleMessageError leave the channel open?  It only
\* writes a log line.
ChannelAfterMessageError(i) == chanOpen[i]

\* main.js:243-248  a messageerror event is dispatched to instance i: only
\* channel.onmessageerror hears it (handleMessage and handleClaim listen for
\* "message").
MessageError(i) ==
    /\ Connected(i)
    /\ chanOpen' = [chanOpen EXCEPT ![i] = ChannelAfterMessageError(i)]
    /\ last' = Step("MessageError", i, NoMessage, "", <<>>)
    /\ UNCHANGED <<page, sessionHash, queryId, isVerified, isClosingAsDuplicate,
                   claimListener, checkTimer, closeTimer, resolveCalls,
                   closeAsDuplicateRuns, bodyReplaced, postError, inbox,
                   ownersAtStart, rivalsAtStart>>
    /\ UNCHANGED demoVars

\* ------------------------------------------------------------- scheduling
\* A message is inert for a receiver when no state of the receiver makes its
\* handling do anything but write a log line: session-registered,
\* session-closed and any type without a case (main.js:229-237), a hash-query
\* for another hash
\* (main.js:218), a hash-claim for another query or hash (main.js:128).  The
\* moment such a task runs commutes with every other step, so it is run as
\* soon as it is at the head of its queue, lowest instance first; all other
\* tasks and timers interleave freely.

Inert(j, m) ==
    \/ m.type \notin {SESSION_HASH_QUERY, SESSION_HASH_CLAIM}
    \/ m.type = SESSION_HASH_QUERY /\ m.hash # sessionHash[j]
    \/ m.type = SESSION_HASH_CLAIM
          /\ ~(m.queryId = queryId[j] /\ m.hash = sessionHash[j])

Urgent == {j \in Inst : Connected(j) /\ inbox[j] # <<>> /\ Inert(j, Head(inbox[j]))}

\* No inert message is at the head of a queue: any step may be taken.
Quiet == Urgent = {}

\* The instance whose inert message runs next.
NextUrgent == CHOOSE i \in Urgent : \A j \in Urgent : i <= j

\* ----------------------------------------------------------- specifications

Next ==
    \/ ~Quiet /\ Deliver(NextUrgent)
    \/ Quiet /\ \E i \in Inst, h \in Hashes, q \in QueryIds : Start(i, h, q)
    \/ Quiet /\ \E i \in Inst : Deliver(i)
    \/ Quiet /\ \E i \in Inst : TimeoutFire(i)
    \/ Quiet /\ \E i \in Inst : CloseTimerFire(i)
    \/ Quiet /\ \E i \in Inst : CloseSession(i)
    \/ Quiet /\ \E i \in Inst : BeforeUnload(i)

Spec == Init /\ [][Next]_allVars

\* The bus within the timeout window: the timeout of instance i fires only
\* when its hash-query is no longer queued at a connected session with its
\* hash and no hash-claim answering it is queued for i.
HandshakeDelivered(i) ==
    /\ \A k \in 1..Len(inbox[i]) :
            ~(/\ inbox[i][k].type = SESSION_HASH_CLAIM
              /\ inbox[i][k].queryId = queryId[i]
              /\ inbox[i][k].hash = sessionHash[i])
    /\ \A j \in Inst \ {i} :
            Connected(j) /\ sessionHash[j] = sessionHash[i] =>
                \A k \in 1..Len(inbox[j]) :
                    ~(inbox[j][k].type = SESSION_HASH_QUERY /\ inbox[j][k].src = i)

NextTimely ==
    \/ ~Quiet /\ Deliver(NextUrgent)
    \/ Quiet /\ \E i \in Inst, h \in Hashes, q \in QueryIds : Start(i, h, q)
    \/ Quiet /\ \E i \in Inst : Deliver(i)
    \/ Quiet /\ \E i \in Inst : HandshakeDelivered(i) /\ TimeoutFire(i)
    \/ Quiet /\ \E i \in Inst : CloseTimerFire(i)
    \/ Quiet /\ \E i \in Inst : CloseSession(i)
    \/ Quiet /\ \E i \in Inst : BeforeUnload(i)

SpecTimely == Init /\ [][NextTimely]_allVars

\* Runs of at most NumFairInst page loads in which every task that is ready
\* runs: a message task queued for an open channel is dispatched and a timer
\* of a page that still exists fires.  Nothing obliges a user to click Close
\* or to leave the page.
NextFair ==
    \/ ~Quiet /\ Deliver(NextUrgent)
    \/ Quiet /\ \E i \in 1..NumFairInst, h \in Hashes, q \in QueryIds : Start(i, h, q)
    \/ Quiet /\ \E i \in Inst : Deliver(i)
    \/ Quiet /\ \E i \in Inst : TimeoutFire(i)
    \/ Quiet /\ \E i \in Inst : CloseTimerFire(i)
    \/ Quiet /\ \E i \in Inst : CloseSession(i)
    \/ Quiet /\ \E i \in Inst : BeforeUnload(i)

FairSpec ==
    /\ Init
    /\ [][NextFair]_allVars
    /\ WF_vars(~Quiet /\ Deliver(NextUrgent))
    /\ \A i \in Inst : WF_vars(Quiet /\ Deliver(i))
    /\ \A i \in Inst : WF_vars(Quiet /\ TimeoutFire(i))
    /\ \A i \in Inst : WF_vars(Quiet /\ CloseTimerFire(i))

\* Runs of at most NumOpenBusInst page loads with other posters on the bus.
NextOpenBus ==
    \/ ~Quiet /\ Deliver(NextUrgent)
    \/ Quiet /\ \E i \in 1..NumOpenBusInst, h \in Hashes, q \in QueryIds : Start(i, h, q)
    \/ Quiet /\ \E i \in Inst : Deliver(i)
    \/ Quiet /\ \E i \in Inst : TimeoutFire(i)
    \/ Quiet /\ \E i \in Inst : CloseTimerFire(i)
    \/ Quiet /\ \E i \in Inst : CloseSession(i)
    \/ Quiet /\ \E i \in Inst : BeforeUnload(i)
    \/ Quiet /\ \E m \in ForeignMessages : Inject(m)
    \/ Quiet /\ \E i \in Inst : MessageError(i)

SpecOpenBus == Init /\ [][NextOpenBus]_allVars

\* ============================================== controller demo: actions

CtrlConnected == ctrlPage = "loaded"
TabConnected(t) == tabPage[t] = "loaded" /\ tabChanOpen[t]

\* channel.postMessage by page `sender` (Undefined: the controller): one
\* task per message for every other page whose channel is open.
CtrlInboxAfter(sender, msgs) ==
    IF sender # Undefined /\ CtrlConnected
    THEN ctrlInbox \o DemoPostedBy(sender, msgs)
    ELSE ctrlInbox

TabInboxAfter(sender, msgs) ==
    [t \in Tabs |->
        IF t # sender /\ TabConnected(t)
        THEN tabInbox[t] \o DemoPostedBy(sender, msgs)
        ELSE tabInbox[t]]

\* Bound of the model: a click or an interval tick that only adds traffic
\* waits until every queue it would reach has room.
RoomFor(sender) ==
    /\ sender # Undefined /\ CtrlConnected => Len(ctrlInbox) < MaxQueue
    /\ \A t \in Tabs \ {sender} : TabConnected(t) => Len(tabInbox[t]) < MaxQueue

\* Bound of the model: the close requests a tab has queued or armed.
ClosesPending(t) ==
    tabCloseTimer[t]
    + Cardinality({k \in 1..Len(tabInbox[t]) :
                        tabInbox[t][k].type \in {CLOSE_SESSION, CLOSE_ALL}})

RoomForClose == \A t \in Tabs : TabConnected(t) => ClosesPending(t) < MaxTimers

NoLifecycle == [id \in SessionIds |-> "none"]

\* --------------------------------------------------------- controller page
\* The module body of the controller runs: channel opened (utils.js:158),
\* empty Map and zero counter (164-165), handlers installed, controller-ready
\* posted (356).
CtrlStart ==
    /\ ctrlPage # "loaded"
    /\ ctrlLoads < MaxCtrlLoads
    /\ ctrlPage' = "loaded"
    /\ ctrlLoads' = ctrlLoads + 1
    /\ activeSessions' = {}
    /\ sessionCounter' = 0
    /\ ctrlInbox' = <<>>
    /\ tabInbox' = TabInboxAfter(Undefined, <<CreateControllerReadyMessage>>)
    /\ lifecycle' = NoLifecycle
    /\ demoLast' = DemoStep("CtrlStart", Undefined, NoDemoMessage, "",
                            <<CreateControllerReadyMessage>>)
    /\ UNCHANGED <<tabPage, tabSessionId, tabChanOpen, tabCloseTimer, tabPostError>>
    /\ UNCHANGED vars

\* utils.js:346-349  beforeunload of the controller; the page's state goes
\* with the page.
CtrlUnload ==
    /\ ctrlPage = "loaded"
    /\ ctrlPage' = "gone"
    /\ activeSessions' = {}
    /\ sessionCounter' = 0
    /\ ctrlInbox' = <<>>
    /\ tabInbox' = TabInboxAfter(Undefined, <<CreateControllerClosingMessage>>)
    /\ lifecycle' = NoLifecycle
    /\ demoLast' = DemoStep("CtrlUnload", Undefined, NoDemoMessage, "",
                            <<CreateControllerClosingMessage>>)
    /\ UNCHANGED <<ctrlLoads, tabPage, tabSessionId, tabChanOpen, tabCloseTimer,
                   tabPostError>>
    /\ UNCHANGED vars

\* utils.js:220-229  launchSession: the counter is incremented and a tab is
\* opened on session.html?sessionId=Session-<counter>.
LaunchSession(t) ==
    /\ ctrlPage = "loaded"
    /\ sessionCounter < MaxCounter
    /\ tabPage[t] = "none"
    /\ \A u \in Tabs : u < t => tabPage[u] # "none"
    /\ sessionCounter' = sessionCounter + 1
    /\ tabPage' = [tabPage EXCEPT ![t] = "opening"]
    /\ tabSessionId' = [tabSessionId EXCEPT ![t] = sessionCounter + 1]
    /\ demoLast' = DemoStep("LaunchSession", Undefined, NoDemoMessage, "", <<>>)
    /\ UNCHANGED <<ctrlPage, ctrlLoads, activeSessions, ctrlInbox, tabChanOpen,
                   tabInbox, tabCloseTimer, tabPostError, lifecycle>>
    /\ UNCHANGED vars

\* A click that posts one message and changes nothing else of the controller:
\* broadcastMessage (utils.js:234-244), sendToSession (250-256),
\* closeSession (262-265), closeAllSessions (270-275).
CtrlPost(op, m) ==
    /\ ctrlPage = "loaded"
    /\ tabInbox' = TabInboxAfter(Undefined, <<m>>)
    /\ demoLast' = DemoStep(op, Undefined, NoDemoMessage, "", <<m>>)
    /\ UNCHANGED <<ctrlPage, ctrlLoads, activeSessions, sessionCounter, ctrlInbox,
                   tabPage, tabSessionId, tabChanOpen, tabCloseTimer,
                   tabPostError, lifecycle>>
    /\ UNCHANGED vars

BroadcastMessage ==
    /\ RoomFor(Undefined)
    /\ CtrlPost("BroadcastMessage", CreateBroadcastMessage)

\* The buttons of utils.js:331-340 exist for the listed sessions only.
SendToSession(id) ==
    /\ id \in activeSessions
    /\ RoomFor(Undefined)
    /\ CtrlPost("SendToSession", CreateDirectMessage(id))

CtrlCloseSession(id) ==
    /\ id \in activeSessions
    /\ RoomFor(Undefined)
    /\ RoomForClose
    /\ CtrlPost("CtrlCloseSession", CreateCloseSessionMessage(id))

CloseAllSessions ==
    /\ RoomFor(Undefined)
    /\ RoomForClose
    /\ CtrlPost("CloseAllSessions", CreateCloseAllMessage)

\* utils.js:308-312 with the ping case setting the entry as 289-293 does
MutHandleInboundPingAdds(active, m) ==
    IF m.type \in {SESSION_REGISTERED, SESSION_PING} THEN active \cup {m.sessionId}
    ELSE IF m.type = SESSION_CLOSED THEN active \ {m.sessionId}
    ELSE active

\* utils.js:285-314  the keys of activeSessions after the controller's
\* onmessage has handled m.
HandleInbound(active, m) ==
    IF m.type = SESSION_REGISTERED THEN active \cup {m.sessionId}
    ELSE IF m.type = SESSION_CLOSED THEN active \ {m.sessionId}
    ELSE active

\* The controller's channel dispatches its next message task.
CtrlDeliver ==
    /\ ctrlPage = "loaded"
    /\ ctrlInbox # <<>>
    /\ LET m == Head(ctrlInbox)
       IN  /\ activeSessions' = HandleInbound(activeSessions, m)
           /\ lifecycle' =
                IF m.type = SESSION_REGISTERED
                THEN [lifecycle EXCEPT ![m.sessionId] = "registered"]
                ELSE IF m.type = SESSION_CLOSED
                THEN [lifecycle EXCEPT ![m.sessionId] = "closed"]
                ELSE lifecycle
           /\ demoLast' = DemoStep("CtrlDeliver", Undefined, m, m.type, <<>>)
    /\ ctrlInbox' = Tail(ctrlInbox)
    /\ UNCHANGED <<ctrlPage, ctrlLoads, sessionCounter, tabPage, tabSessionId,
                   tabChanOpen, tabInbox, tabCloseTimer, tabPostError>>
    /\ UNCHANGED vars

\* -------------------------------------------------------------- session tab
\* The module body of part_002 runs in the opened tab: channel opened (21),
\* sessionId read from the URL (27), handlers installed, registerSession()
\* (227) posts session-registered.
TabStart(t) ==
    /\ tabPage[t] = "opening"
    /\ tabPage' = [tabPage EXCEPT ![t] = "loaded"]
    /\ tabChanOpen' = [tabChanOpen EXCEPT ![t] = TRUE]
    /\ LET posts == <<DemoSessionRegisteredMessage(tabSessionId[t])>>
       IN  /\ ctrlInbox' = CtrlInboxAfter(t, posts)
           /\ tabInbox' = TabInboxAfter(t, posts)
           /\ demoLast' = DemoStep("TabStart", t, NoDemoMessage, "", posts)
    /\ UNCHANGED <<ctrlPage, ctrlLoads, activeSessions, sessionCounter,
                   tabSessionId, tabCloseTimer, tabPostError, lifecycle>>
    /\ UNCHANGED vars

\* part_002:149/156 without the comparison
MutTargetedAlways(t, m) == TRUE

\* part_002:149 and 156  msgData.targetSession === sessionId
IsTargeted(t, m) == m.targetSession = tabSessionId[t]

\* part_002:164 with the timer left out
MutCloseAllArmsNothing(n) == n

\* part_002:164  setTimeout(closeSession, 1000)
TimersAfterCloseAll(n) == n + 1

\* The branch the tab's onmessage (part_002:135-191) takes on m.
TabBranch(t, m) ==
    IF m.sessionId = tabSessionId[t] THEN "own"
    ELSE IF m.type = BROADCAST THEN "broadcast"
    ELSE IF m.type = DIRECT_MESSAGE
         THEN IF IsTargeted(t, m) THEN "direct" ELSE "direct-ignored"
    ELSE IF m.type = CLOSE_SESSION
         THEN IF IsTargeted(t, m) THEN "close" ELSE "close-ignored"
    ELSE IF m.type = CLOSE_ALL THEN "close-all"
    ELSE IF m.type = CONTROLLER_CLOSING THEN "controller-closing"
    ELSE IF m.type = CONTROLLER_READY THEN "ready"
    ELSE IF m.type = SESSION_REGISTERED THEN "sibling-opened"
    ELSE IF m.type = SESSION_CLOSED THEN "sibling-closed"
    ELSE "ignored"

\* part_002:175 left out
MutReadyRegistersNothing(t) == <<>>

\* part_002:86-90  registerSession
TabRegisterPosts(t) == <<DemoSessionRegisteredMessage(tabSessionId[t])>>

\* The tab's channel dispatches its next message task.
TabDeliver(t) ==
    /\ TabConnected(t)
    /\ tabInbox[t] # <<>>
    /\ LET m == Head(tabInbox[t])
           b == TabBranch(t, m)
           posts == IF b = "ready" THEN TabRegisterPosts(t) ELSE <<>>
           rest == [tabInbox EXCEPT ![t] = Tail(@)]
       IN  /\ tabCloseTimer' = [tabCloseTimer EXCEPT ![t] =
                    IF b = "close" THEN @ + 1
                    ELSE IF b = "close-all" THEN TimersAfterCloseAll(@)
                    ELSE @]
           /\ ctrlInbox' = CtrlInboxAfter(t, posts)
           /\ tabInbox' = [u \in Tabs |->
                    IF u # t /\ TabConnected(u)
                    THEN rest[u] \o DemoPostedBy(t, posts)
                    ELSE rest[u]]
           /\ demoLast' = DemoStep("TabDeliver", t, m, b, posts)
    /\ UNCHANGED <<ctrlPage, ctrlLoads, activeSessions, sessionCounter, tabPage,
                   tabSessionId, tabChanOpen, tabPostError, lifecycle>>
    /\ UNCHANGED vars

\* part_002:112 left out
MutTabClosesSilently(t) == <<>>

\* part_002:112  channel.postMessage(createSessionClosedMessage(sessionId))
TabCloseSessionPosts(t) == <<DemoSessionClosedMessage(tabSessionId[t])>>

\* part_002:111-125  closeSession. On an open channel: session-closed posted,
\* channel closed (its queued tasks are dropped), window.close() requested;
\* the page is still there until it unloads. On a closed channel postMessage
\* throws and nothing else runs.
RunTabCloseSession(op, t) ==
    IF tabChanOpen[t]
    THEN /\ ctrlInbox' = CtrlInboxAfter(t, TabCloseSessionPosts(t))
         /\ tabInbox' = [TabInboxAfter(t, TabCloseSessionPosts(t)) EXCEPT ![t] = <<>>]
         /\ tabChanOpen' = [tabChanOpen EXCEPT ![t] = FALSE]
         /\ demoLast' = DemoStep(op, t, NoDemoMessage, "", TabCloseSessionPosts(t))
         /\ UNCHANGED tabPostError
    ELSE /\ tabPostError' = [tabPostError EXCEPT ![t] = TRUE]
         /\ demoLast' = DemoStep(op, t, NoDemoMessage, "", <<>>)
         /\ UNCHANGED <<ctrlInbox, tabInbox, tabChanOpen>>

\* part_002:202  the close button
TabCloseSession(t) ==
    /\ tabPage[t] = "loaded"
    /\ RunTabCloseSession("TabCloseSession", t)
    /\ UNCHANGED <<ctrlPage, ctrlLoads, activeSessions, sessionCounter, tabPage,
                   tabSessionId, tabCloseTimer, lifecycle>>
    /\ UNCHANGED vars

\* A timer of part_002:158/164 fires.
TabCloseTimerFire(t) ==
    /\ tabPage[t] = "loaded"
    /\ tabCloseTimer[t] > 0
    /\ tabCloseTimer' = [tabCloseTimer EXCEPT ![t] = @ - 1]
    /\ RunTabCloseSession("TabCloseTimerFire", t)
    /\ UNCHANGED <<ctrlPage, ctrlLoads, activeSessions, sessionCounter, tabPage,
                   tabSessionId, lifecycle>>
    /\ UNCHANGED vars

\* A handler of the tab that posts one message: sendMessage (part_002:95-106)
\* and the heartbeat (218-220). On a closed channel postMessage throws.
TabPost(op, t, m) ==
    /\ tabPage[t] = "loaded"
    /\ IF tabChanOpen[t]
       THEN /\ RoomFor(t)
            /\ ctrlInbox' = CtrlInboxAfter(t, <<m>>)
            /\ tabInbox' = TabInboxAfter(t, <<m>>)
            /\ demoLast' = DemoStep(op, t, NoDemoMessage, "", <<m>>)
            /\ UNCHANGED tabPostError
       ELSE /\ tabPostError' = [tabPostError EXCEPT ![t] = TRUE]
            /\ demoLast' = DemoStep(op, t, NoDemoMessage, "", <<>>)
            /\ UNCHANGED <<ctrlInbox, tabInbox>>
    /\ UNCHANGED <<ctrlPage, ctrlLoads, activeSessions, sessionCounter, tabPage,
                   tabSessionId, tabChanOpen, tabCloseTimer, lifecycle>>
    /\ UNCHANGED vars

TabSendMessage(t) == TabPost("TabSendMessage", t, CreateSessionMessage(tabSessionId[t]))

TabPing(t) == TabPost("TabPing", t, CreateSessionPingMessage(tabSessionId[t]))

\* part_002:209-212  beforeunload: session-closed posted (postMessage throws
\* if closeSession already closed the channel), channel closed; the page and
\* its timers are gone.
TabUnload(t) ==
    /\ tabPage[t] = "loaded"
    /\ LET posts == IF tabChanOpen[t] THEN TabCloseSessionPosts(t) ELSE <<>>
       IN  /\ ctrlInbox' = CtrlInboxAfter(t, posts)
           /\ tabInbox' = [TabInboxAfter(t, posts) EXCEPT ![t] = <<>>]
           /\ demoLast' = DemoStep("TabUnload", t, NoDemoMessage, "", posts)
    /\ tabPostError' = [tabPostError EXCEPT ![t] = ~tabChanOpen[t]]
    /\ tabPage' = [tabPage EXCEPT ![t] = "gone"]
    /\ tabChanOpen' = [tabChanOpen EXCEPT ![t] = FALSE]
    /\ tabCloseTimer' = [tabCloseTimer EXCEPT ![t] = 0]
    /\ UNCHANGED <<ctrlPage, ctrlLoads, activeSessions, sessionCounter,
                   tabSessionId, lifecycle>>
    /\ UNCHANGED vars

\* ------------------------------------------------- controller demo: specs

\* A queued message is inert for its receiver when handling it changes
\* nothing but the log: for a tab every branch of part_002:135-191 but an
\* accepted close request, close-all and controller-ready; for the
\* controller every type but the two lifecycle ones (a ping only stamps
\* lastPing). The event loop runs such a task before anything else happens,
\* the lowest page first: the order of inert tasks among other steps changes
\* no state that follows.
TabInert(t, m) == TabBranch(t, m) \notin {"close", "close-all", "ready"}

CtrlInert(m) == m.type \notin {SESSION_REGISTERED, SESSION_CLOSED}

CtrlUrgent == CtrlConnected /\ ctrlInbox # <<>> /\ CtrlInert(Head(ctrlInbox))

UrgentTabs ==
    {t \in Tabs : TabConnected(t) /\ tabInbox[t] # <<>> /\ TabInert(t, Head(tabInbox[t]))}

DemoQuiet == ~CtrlUrgent /\ UrgentTabs = {}

NextUrgentTab == CHOOSE t \in UrgentTabs : \A u \in UrgentTabs : t <= u

DemoNext ==
    \/ CtrlUrgent /\ CtrlDeliver
    \/ ~CtrlUrgent /\ UrgentTabs # {} /\ TabDeliver(NextUrgentTab)
    \/ DemoQuiet /\ CtrlStart
    \/ DemoQuiet /\ CtrlUnload
    \/ DemoQuiet /\ \E t \in Tabs : LaunchSession(t)
    \/ DemoQuiet /\ BroadcastMessage
    \/ DemoQuiet /\ \E id \in SessionIds : SendToSession(id)
    \/ DemoQuiet /\ \E id \in SessionIds : CtrlCloseSession(id)
    \/ DemoQuiet /\ CloseAllSessions
    \/ DemoQuiet /\ CtrlDeliver
    \/ DemoQuiet /\ \E t \in Tabs : TabStart(t)
    \/ DemoQuiet /\ \E t \in Tabs : TabDeliver(t)
    \/ DemoQuiet /\ \E t \in Tabs : TabCloseSession(t)
    \/ DemoQuiet /\ \E t \in Tabs : TabCloseTimerFire(t)
    \/ DemoQuiet /\ \E t \in Tabs : TabSendMessage(t)
    \/ DemoQuiet /\ \E t \in Tabs : TabPing(t)
    \/ DemoQuiet /\ \E t \in Tabs : TabUnload(t)

DemoSpec == Init /\ [][DemoNext]_allVars

\* Runs without the traffic that no close depends on (broadcasts, direct
\* messages, session messages, heartbeats), so that no task is inert for the
\* controller. The event loop runs every queued
\* message task and every armed timer of a page that stays; clicks and
\* unloads are never forced.
DemoNextFair ==
    \/ ~CtrlUrgent /\ UrgentTabs # {} /\ TabDeliver(NextUrgentTab)
    \/ DemoQuiet /\ CtrlStart
    \/ DemoQuiet /\ CtrlUnload
    \/ DemoQuiet /\ \E t \in Tabs : LaunchSession(t)
    \/ DemoQuiet /\ \E id \in SessionIds : CtrlCloseSession(id)
    \/ DemoQuiet /\ CloseAllSessions
    \/ DemoQuiet /\ CtrlDeliver
    \/ DemoQuiet /\ \E t \in Tabs : TabStart(t)
    \/ DemoQuiet /\ \E t \in Tabs : TabDeliver(t)
    \/ DemoQuiet /\ \E t \in Tabs : TabCloseSession(t)
    \/ DemoQuiet /\ \E t \in Tabs : TabCloseTimerFire(t)
    \/ DemoQuiet /\ \E t \in Tabs : TabUnload(t)

DemoFairSpec ==
    /\ Init
    /\ [][DemoNextFair]_allVars
    /\ WF_allVars(CtrlDeliver)
    /\ \A t \in Tabs : WF_allVars(TabDeliver(t))
    /\ \A t \in Tabs : WF_allVars(TabCloseTimerFire(t))

\* ================================================================ properties
\* `last` is the step that led to the current state, so a property of a step
\* is a property of the state it ends in.

\* last.posts holds a message of type t
Posted(t) == \E k \in 1..Len(last.posts) : last.posts[k].type = t

\* The step that led here dispatched message m to instance i.
Delivered(i) == last.op = "Deliver" /\ last.inst = i

\* The message just dispatched answers instance i's own query.
AnswersQueryOf(i) ==
    /\ last.event.type = SESSION_HASH_CLAIM
    /\ last.event.queryId = queryId[i]
    /\ last.event.hash = sessionHash[i]

\* Instance b resolved as a duplicate and is no owner.
IsDuplicate(b) ==
    /\ Outcome(b) = "Duplicate"
    /\ ~isVerified[b]
    /\ ~(last.inst = b /\ Posted(SESSION_REGISTERED))

\* ------------------------------------------------------------------- C1
\* C1 (P1, single winner without a race): if A was the connected verified
\* owner of B's hash when B started its check, and A's hash-claim answering
\* B's query is dispatched to B while B's timeout is still pending, then B
\* resolves Duplicate with isVerified false; and from then on, for as long
\* as B's page exists, B stays Duplicate, never sets isVerified and never
\* announces itself with session-registered.
C1_Step ==
    \A b \in Inst :
        /\ ( /\ Delivered(b)'
             /\ AnswersQueryOf(b)'
             /\ last'.event.src \in ownersAtStart'[b]
             /\ checkTimer'[b] = "pending" ) => IsDuplicate(b)'
        /\ IsDuplicate(b) /\ page'[b] = "loaded" => IsDuplicate(b)'

C1_SingleWinner == [][C1_Step]_vars

\* B has just been resolved Duplicate by the claim of the owner that was
\* registered when B started.
C1_Witness ==
    \E b \in Inst :
        /\ Delivered(b)
        /\ AnswersQueryOf(b)
        /\ last.event.src \in ownersAtStart[b]
        /\ checkTimer[b] = "pending"
        /\ Outcome(b) = "Duplicate"
        /\ isClosingAsDuplicate[b]

\* ------------------------------------------------------------------- C2
\* Two sessions overlapped their checks: one started while the other's
\* timeout was pending.
Raced(a, b) == a \in rivalsAtStart[b] \/ b \in rivalsAtStart[a]

VerifiedOwners(h) ==
    {i \in Inst : Connected(i) /\ sessionHash[i] = h /\ isVerified[i]}

\* C2 as stated: at most one connected session per hash is verified, given
\* that the bus delivers every query and claim before the querier's timeout.
C2_AtMostOneVerified == \A h \in Hashes : Cardinality(VerifiedOwners(h)) <= 1

\* C2 (amended): under a bus that delivers every hash-query and hash-claim
\* before the querier's timeout fires, two connected sessions with the same
\* hash are both verified only if their checks overlapped (one started
\* its check while the other's timeout was still pending).
C2_AtMostOneVerifiedUnlessRaced ==
    \A a, b \in Inst :
        ( /\ a # b
          /\ Connected(a) /\ Connected(b)
          /\ sessionHash[a] = sessionHash[b]
          /\ isVerified[a] /\ isVerified[b] ) => Raced(a, b)

\* The owner is connected and verified, the later session with its hash did
\* not race it, has had its timeout and is not verified.
C2_Witness ==
    \E a, b \in Inst :
        /\ a \in ownersAtStart[b]
        /\ ~Raced(a, b)
        /\ Connected(a) /\ isVerified[a]
        /\ Connected(b) /\ checkTimer[b] = "fired" /\ ~isVerified[b]
        /\ Outcome(b) = "Duplicate"

\* ------------------------------------------------------------------- C3
\* C3 (race false-negative): when two sessions with the same hash overlapped
\* their checks, both timeouts have fired on pages that still exist and
\* neither session was resolved by a claim, both resolved Unique and both
\* have isVerified = true.
C3_RaceBothUnique ==
    \A a, b \in Inst :
        ( /\ a # b
          /\ sessionHash[a] = sessionHash[b]
          /\ Raced(a, b)
          /\ page[a] = "loaded" /\ page[b] = "loaded"
          /\ checkTimer[a] = "fired" /\ checkTimer[b] = "fired"
          /\ ~isClosingAsDuplicate[a] /\ ~isClosingAsDuplicate[b] )
        => /\ Outcome(a) = "Unique" /\ Outcome(b) = "Unique"
           /\ isVerified[a] /\ isVerified[b]

\* The second of two racing sessions has just timed out and announced
\* itself: both are verified and connected, and no claim was ever queued.
C3_Witness ==
    \E a, b \in Inst :
        /\ a # b
        /\ sessionHash[a] = sessionHash[b]
        /\ a \in rivalsAtStart[b]
        /\ ownersAtStart[a] = {} /\ ownersAtStart[b] = {}
        /\ Connected(a) /\ isVerified[a] /\ Outcome(a) = "Unique"
        /\ Connected(b) /\ isVerified[b] /\ Outcome(b) = "Unique"
        /\ last.op = "TimeoutFire" /\ last.inst = b /\ Posted(SESSION_REGISTERED)

\* ------------------------------------------------------------------- C4
\* C4 (P6, unregistered silence): whatever a session posts in a step, it
\* posts a hash-claim only if its isVerified is true.
C4_UnverifiedSilent ==
    Posted(SESSION_HASH_CLAIM) => isVerified[last.inst]

\* An unverified session has just handled a hash-query for its own hash and
\* posted nothing.
C4_Witness ==
    \E i \in Inst :
        /\ Delivered(i)
        /\ last.event.type = SESSION_HASH_QUERY
        /\ last.event.hash = sessionHash[i]
        /\ ~isVerified[i]
        /\ last.posts = <<>>

\* ------------------------------------------------------------------- C5
\* A verified session is about to handle a hash-query for another hash.
ForeignQueryAtHead(i) ==
    /\ Connected(i)
    /\ isVerified[i]
    /\ inbox[i] # <<>>
    /\ Head(inbox[i]).type = SESSION_HASH_QUERY
    /\ Head(inbox[i]).hash # sessionHash[i]

\* C5: every hash-claim a session posts is for its own sessionHash; and a
\* verified session handling a hash-query for a different hash posts
\* nothing and changes nothing but consuming the message.
C5_Step ==
    /\ \A k \in 1..Len(last'.posts) :
            last'.posts[k].type = SESSION_HASH_CLAIM =>
                last'.posts[k].hash = sessionHash'[last'.inst]
    /\ \A i \in Inst :
            ForeignQueryAtHead(i) /\ Delivered(i)' =>
                /\ last'.posts = <<>>
                /\ inbox' = [inbox EXCEPT ![i] = Tail(@)]
                /\ UNCHANGED <<page, sessionHash, queryId, isVerified,
                               isClosingAsDuplicate, chanOpen, claimListener,
                               checkTimer, closeTimer, resolveCalls,
                               closeAsDuplicateRuns, bodyReplaced, postError>>

C5_OwnHashOnly == [][C5_Step]_vars

\* A verified session has just handled a query for another hash silently.
C5_Witness ==
    \E i \in Inst :
        /\ Delivered(i)
        /\ last.event.type = SESSION_HASH_QUERY
        /\ last.event.hash # sessionHash[i]
        /\ isVerified[i]
        /\ last.branch = "query-ignored"
        /\ last.posts = <<>>

\* ------------------------------------------------------------------- C6
\* The hash-claim that answers the query just dispatched to instance i.
ExpectedClaim(i) ==
    [type |-> SESSION_HASH_CLAIM, hash |-> last.event.hash,
     queryId |-> last.event.queryId, sessionId |-> SessionId(i),
     src |-> i]

\* C6: a connected verified session that has handled a hash-query for its
\* own hash has posted exactly one message, a hash-claim carrying the
\* query's queryId, the queried hash and the responder's sessionId, and the
\* bus has queued that message for every other connected instance.
C6_ClaimFields ==
    \A i \in Inst :
        ( /\ Delivered(i)
          /\ last.event.type = SESSION_HASH_QUERY
          /\ last.event.hash = sessionHash[i]
          /\ isVerified[i] )
        => /\ last.posts = <<ExpectedClaim(i)>>
           /\ \A j \in Inst \ {i} :
                Connected(j) =>
                    /\ inbox[j] # <<>>
                    /\ inbox[j][Len(inbox[j])] = ExpectedClaim(i)

\* A verified session has just answered a query whose queryId differs from
\* the numbers of its own hash and query.
C6_Witness ==
    \E i \in Inst :
        /\ Delivered(i)
        /\ last.event.type = SESSION_HASH_QUERY
        /\ last.event.hash = sessionHash[i]
        /\ isVerified[i]
        /\ last.event.queryId # queryId[i]
        /\ last.event.queryId # SessionId(i)
        /\ Len(last.posts) = 1

\* ------------------------------------------------------------------- C7
\* C7 (P5, correlation): resolve(false) is called for instance i only in a
\* step that dispatches to i a message of type hash-claim whose queryId is
\* i's queryId and whose hash is i's sessionHash.
C7_Step ==
    \A i \in Inst :
        ( \/ Outcome(i) = "pending" /\ Outcome(i)' = "Duplicate"
          \/ /\ page'[i] = "loaded"
             /\ Len(resolveCalls'[i]) > Len(resolveCalls[i])
             /\ ~resolveCalls'[i][Len(resolveCalls'[i])]
          \/ ~isClosingAsDuplicate[i] /\ isClosingAsDuplicate'[i] )
        => /\ Delivered(i)'
           /\ last'.event.type = SESSION_HASH_CLAIM
           /\ last'.event.queryId = queryId[i]
           /\ last'.event.hash = sessionHash[i]

C7_CorrelatedOnly == [][C7_Step]_vars

\* A checking session has just been handed a claim for its own hash that
\* answers another session's query, and its check is still pending.
C7_Witness ==
    \E i \in Inst :
        /\ Delivered(i)
        /\ last.event.type = SESSION_HASH_CLAIM
        /\ last.event.hash = sessionHash[i]
        /\ last.event.queryId # queryId[i]
        /\ checkTimer[i] = "pending"
        /\ claimListener[i]
        /\ Outcome(i) = "pending"

\* ------------------------------------------------------------------- C8
\* C8 (P4, idempotent claim handling): however many matching claims are
\* dispatched to a session, resolve is called at most once, closeAsDuplicate
\* runs at most once and at most one teardown timer is ever armed.
C8_ActedOnce ==
    \A i \in Inst :
        /\ Len(resolveCalls[i]) <= 1
        /\ closeAsDuplicateRuns[i] <= 1
        /\ closeTimer[i] <= 1
        /\ closeTimer[i] <= closeAsDuplicateRuns[i]

\* A matching claim has just been dispatched to a session after its timeout
\* fired; the session was closing as a duplicate before the timeout, so this
\* is a further matching claim, and still there was one resolution and one
\* run of closeAsDuplicate.
C8_Witness ==
    \E i \in Inst :
        /\ Delivered(i)
        /\ AnswersQueryOf(i)
        /\ checkTimer[i] = "fired"
        /\ isClosingAsDuplicate[i]
        /\ resolveCalls[i] = <<FALSE>>
        /\ closeAsDuplicateRuns[i] = 1

\* ------------------------------------------------------------------- C9
\* C9: a call of checkForDuplicates never produces both Unique and
\* Duplicate; once its timeout timer has fired on a page that still exists
\* it has produced exactly one of them; and a page throws no exception while
\* the check is unresolved.
C9_ExactlyOneOutcome ==
    \A i \in Inst :
        /\ ~(\E k, l \in 1..Len(resolveCalls[i]) :
                resolveCalls[i][k] /\ ~resolveCalls[i][l])
        /\ page[i] = "loaded" /\ checkTimer[i] = "fired" =>
                /\ Len(resolveCalls[i]) = 1
                /\ Outcome(i) \in {"Unique", "Duplicate"}
        /\ page[i] = "loaded" /\ Outcome(i) = "pending" => ~postError[i]

\* The timeout has just fired for a session a claim had already resolved,
\* after the user clicked Close: the outcome is Duplicate alone.
C9_Witness ==
    \E i \in Inst :
        /\ last.op = "TimeoutFire" /\ last.inst = i
        /\ isClosingAsDuplicate[i]
        /\ ~chanOpen[i]
        /\ resolveCalls[i] = <<FALSE>>

\* ------------------------------------------------------------------ C10
\* Instance i started its check with no connected verified owner of its hash.
NoOwnerAtStart(i) == ownersAtStart[i] = {}

\* ... and with no connected session of its hash still checking, and no
\* other instance has drawn its queryId.
AloneAtStart(i) ==
    /\ ownersAtStart[i] = {}
    /\ rivalsAtStart[i] = {}
    /\ \A j \in Inst \ {i} : queryId[j] # queryId[i]

\* A verified session answers the hash-query for its hash just dispatched.
AnswersQueries ==
    \A i \in Inst :
        ( /\ Delivered(i)
          /\ last.event.type = SESSION_HASH_QUERY
          /\ last.event.hash = sessionHash[i]
          /\ isVerified[i] ) => Posted(SESSION_HASH_CLAIM)

\* C10 as stated: a session that started with no connected verified owner of
\* its hash resolves Unique when its timeout fires and sets isVerified.
C10_UniqueWhenNoOwner ==
    /\ \A i \in Inst :
        last.op = "TimeoutFire" /\ last.inst = i /\ NoOwnerAtStart(i) =>
            Outcome(i) = "Unique" /\ isVerified[i]
    /\ AnswersQueries

\* C10 (amended): a session that started its check when no other connected
\* session with its hash was verified or still checking, and whose queryId
\* no other session has drawn, resolves Unique when its timeout fires and
\* sets isVerified; and a connected verified session answers every
\* hash-query for its hash dispatched to it with a hash-claim.
C10_UniqueWhenAlone ==
    /\ \A i \in Inst :
        last.op = "TimeoutFire" /\ last.inst = i /\ AloneAtStart(i) =>
            Outcome(i) = "Unique" /\ isVerified[i]
    /\ AnswersQueries

\* A session that started alone and resolved Unique has just answered the
\* query of a later session with its hash.
C10_Witness ==
    \E i \in Inst :
        /\ AloneAtStart(i)
        /\ Outcome(i) = "Unique"
        /\ isVerified[i]
        /\ Delivered(i)
        /\ last.event.type = SESSION_HASH_QUERY
        /\ last.event.hash = sessionHash[i]
        /\ Posted(SESSION_HASH_CLAIM)

\* ------------------------------------------------------------------ C11
\* C11 (late claim ignored): isVerified, once true, stays true for as long as
\* the page exists; and a step that dispatches a hash-claim to a session
\* whose check has resolved Unique calls resolve no further time, leaves
\* isVerified as it was, leaves isClosingAsDuplicate false, runs no
\* closeAsDuplicate, arms no teardown timer and leaves the channel as it was.
C11_Step ==
    \A i \in Inst :
        /\ isVerified[i] /\ page'[i] = "loaded" => isVerified'[i]
        /\ ( /\ Outcome(i) = "Unique"
             /\ Delivered(i)'
             /\ last'.event.type = SESSION_HASH_CLAIM )
           => /\ resolveCalls'[i] = resolveCalls[i]
              /\ isVerified'[i] = isVerified[i]
              /\ ~isClosingAsDuplicate'[i]
              /\ closeAsDuplicateRuns'[i] = 0
              /\ closeTimer'[i] = 0
              /\ chanOpen'[i] = chanOpen[i]
              /\ last'.posts = <<>>

C11_LateClaimIgnored == [][C11_Step]_vars

\* A claim answering the session's own query has just been dispatched to it
\* after its timeout resolved Unique: it is still verified and not closing.
C11_Witness ==
    \E i \in Inst :
        /\ Delivered(i)
        /\ AnswersQueryOf(i)
        /\ checkTimer[i] = "fired"
        /\ resolveCalls[i] = <<TRUE>>
        /\ isVerified[i]
        /\ ~isClosingAsDuplicate[i]
        /\ closeTimer[i] = 0

\* ------------------------------------------------------------------ C12
\* C12 (DUPLICATE is terminal): isVerified and isClosingAsDuplicate are never
\* both true; and a step of a session that has resolved Duplicate posts
\* neither session-registered nor a hash-claim.
C12_DuplicateTerminal ==
    \A i \in Inst :
        /\ ~(isVerified[i] /\ isClosingAsDuplicate[i])
        /\ ( /\ page[i] = "loaded"
             /\ Outcome(i) = "Duplicate"
             /\ last.inst = i )
           => /\ ~Posted(SESSION_REGISTERED)
              /\ ~Posted(SESSION_HASH_CLAIM)

\* A session that resolved Duplicate has just been handed a hash-query for
\* its own hash, after its timeout fired, and stayed silent.
C12_Witness ==
    \E i \in Inst :
        /\ Delivered(i)
        /\ last.event.type = SESSION_HASH_QUERY
        /\ last.event.hash = sessionHash[i]
        /\ Outcome(i) = "Duplicate"
        /\ isClosingAsDuplicate[i]
        /\ checkTimer[i] = "fired"
        /\ last.posts = <<>>

\* ------------------------------------------------------------------ C13
\* C13 as stated: a step of a session that is closing as a duplicate never
\* posts session-closed.  (closeAsDuplicate's timer and closeSession leave
\* the flag as it is, so the flag after the step is the flag before it; the
\* beforeunload listener tests the flag itself.)
C13_NoClosedAfterDuplicate ==
    \A i \in Inst :
        ( /\ page[i] = "loaded"
          /\ isClosingAsDuplicate[i]
          /\ last.inst = i ) => ~Posted(SESSION_CLOSED)

\* ------------------------------------------------------------------ C14
\* Once the channel of a page is closed it is never open again.
StaysDisconnected ==
    \A i \in Inst : page[i] # "none" /\ ~Connected(i) => ~Connected(i)'

\* C14: under fair scheduling of message tasks and timers, every session
\* that resolved Duplicate (isClosingAsDuplicate set) is eventually
\* disconnected from the bus; and a disconnected session never reconnects.
C14_DuplicateDisconnects ==
    /\ \A i \in Inst : isClosingAsDuplicate[i] ~> ~Connected(i)
    /\ [][StaysDisconnected]_vars

\* The teardown timer of a duplicate has just run: its channel is closed.
C14_Witness ==
    \E i \in Inst :
        /\ last.op = "CloseTimerFire" /\ last.inst = i
        /\ page[i] = "loaded"
        /\ isClosingAsDuplicate[i]
        /\ Outcome(i) = "Duplicate"
        /\ ~chanOpen[i]
        /\ closeTimer[i] = 0

\* ------------------------------------------------------------------ C15
\* The session-registered message of instance i, as the bus carries it.
ExpectedRegistered(i) ==
    [type |-> SESSION_REGISTERED, hash |-> sessionHash[i],
     queryId |-> Undefined, sessionId |-> SessionId(i), src |-> i]

\* C15: a step in which a session posts session-registered is the firing of
\* its duplicate-check timeout, after which the check has resolved Unique and
\* isVerified is true, and it posts exactly that one message, carrying the
\* session's sessionId and hash; the timeout of a page fires once (a fired
\* timer stays fired while the page exists), so the message is posted at most
\* once in the session's lifetime.
C15_Step ==
    \A i \in Inst :
        /\ last'.inst = i /\ Posted(SESSION_REGISTERED)' =>
                /\ last'.op = "TimeoutFire"
                /\ checkTimer[i] = "pending"
                /\ checkTimer'[i] = "fired"
                /\ Outcome(i)' = "Unique"
                /\ isVerified'[i]
                /\ last'.posts = <<ExpectedRegistered(i)>>
        /\ checkTimer[i] = "fired" /\ page'[i] = "loaded" => checkTimer'[i] = "fired"

C15_RegisteredOnce == [][C15_Step]_vars

\* A session has just registered, and a sibling with another hash is
\* connected to hear it.
C15_Witness ==
    \E i \in Inst :
        /\ last.op = "TimeoutFire" /\ last.inst = i
        /\ last.posts = <<ExpectedRegistered(i)>>
        /\ isVerified[i]
        /\ \E j \in Inst \ {i} :
                /\ Connected(j)
                /\ sessionHash[j] # sessionHash[i]
                /\ inbox[j] # <<>>
                /\ inbox[j][Len(inbox[j])] = ExpectedRegistered(i)

C17_SelfEchoIgnored ==
    \A i \in Inst :
        Delivered(i) /\ last.event.sessionId = SessionId(i) => last.posts = <<>>

\* ------------------------------------------------------------------ C18
\* C18 as stated: every message a session posts carries a sessionId.
C18_PostsCarrySessionId ==
    \A k \in 1..Len(last.posts) : last.posts[k].sessionId # Undefined

\* ------------------------------------------------------------------ C19
\* C19 as stated: no two instances connected to the bus at the same time
\* have the same sessionId.
C19_SessionIdUnique ==
    \A a, b \in Inst :
        a # b /\ Connected(a) /\ Connected(b) => SessionId(a) # SessionId(b)

\* ------------------------------------------------------------------ C20
\* C20 (messageerror): a step that dispatches a messageerror event to a
\* session posts nothing, runs neither the hash-query nor the hash-claim
\* handling, and leaves isVerified, isClosingAsDuplicate, the pending check
\* (its listener, its timer, the calls of resolve), the teardown and the
\* channel as they were.
C20_Step ==
    \A i \in Inst :
        last'.op = "MessageError" /\ last'.inst = i =>
            /\ last'.posts = <<>>
            /\ last'.branch = ""
            /\ inbox' = inbox
            /\ isVerified'[i] = isVerified[i]
            /\ isClosingAsDuplicate'[i] = isClosingAsDuplicate[i]
            /\ claimListener'[i] = claimListener[i]
            /\ checkTimer'[i] = checkTimer[i]
            /\ resolveCalls'[i] = resolveCalls[i]
            /\ closeAsDuplicateRuns'[i] = closeAsDuplicateRuns[i]
            /\ closeTimer'[i] = closeTimer[i]
            /\ chanOpen'[i] = chanOpen[i]
            /\ page'[i] = page[i]

C20_MessageErrorIgnored == [][C20_Step]_vars

\* A messageerror has just been dispatched to a session whose check is
\* pending with a matching claim queued behind it: the check is still pending.
C20_Witness ==
    \E i \in Inst :
        /\ last.op = "MessageError" /\ last.inst = i
        /\ checkTimer[i] = "pending"
        /\ claimListener[i]
        /\ Outcome(i) = "pending"
        /\ Connected(i)
        /\ \E k \in 1..Len(inbox[i]) : ClaimMatches(i, inbox[i][k])

\* ------------------------------------------------------------------ C25
\* C25 (timeout after Duplicate is a no-op): a step in which the
\* duplicate-check timeout fires for a session a claim has already resolved
\* as Duplicate calls resolve no further time, leaves isVerified false and
\* isClosingAsDuplicate true, posts nothing, runs no closeAsDuplicate and
\* arms no second teardown timer.
C25_Step ==
    \A i \in Inst :
        ( /\ Outcome(i) = "Duplicate"
          /\ last'.op = "TimeoutFire" /\ last'.inst = i
          /\ checkTimer[i] = "pending" /\ checkTimer'[i] = "fired" )
        => /\ resolveCalls'[i] = resolveCalls[i]
           /\ ~isVerified'[i]
           /\ isClosingAsDuplicate'[i]
           /\ last'.posts = <<>>
           /\ inbox' = inbox
           /\ closeAsDuplicateRuns'[i] = closeAsDuplicateRuns[i]
           /\ closeTimer'[i] = closeTimer[i]
           /\ chanOpen'[i] = chanOpen[i]

C25_TimeoutAfterDuplicateNoOp == [][C25_Step]_vars

\* The timeout has just fired for a connected session that a claim had
\* resolved as Duplicate, while its one teardown timer is still pending.
C25_Witness ==
    \E i \in Inst :
        /\ last.op = "TimeoutFire" /\ last.inst = i
        /\ Connected(i)
        /\ resolveCalls[i] = <<FALSE>>
        /\ isClosingAsDuplicate[i]
        /\ ~isVerified[i]
        /\ closeTimer[i] = 1

\* ------------------------------------------------------------------ C26
\* C26: after every step, if handleClaim is subscribed then the check is
\* still pending (no resolve call, timeout not fired); and once handleClaim
\* is unsubscribed on a page it is never subscribed again.
C26_Step ==
    \A i \in Inst :
        /\ claimListener'[i] =>
                /\ resolveCalls'[i] = <<>>
                /\ checkTimer'[i] = "pending"
        /\ page[i] = "loaded" /\ ~claimListener[i] => ~claimListener'[i]

C26_ListenerOnlyWhilePending == [][C26_Step]_vars

\* A claim has just resolved the check before the timeout: handleClaim is
\* already unsubscribed while the timer is still pending.
C26_Witness ==
    \E i \in Inst :
        /\ Delivered(i)
        /\ AnswersQueryOf(i)
        /\ Outcome(i) = "Duplicate"
        /\ checkTimer[i] = "pending"
        /\ ~claimListener[i]

\* ------------------------------------------------------------------ C27
\* The session-closed message of instance i, as the bus carries it.
ExpectedClosed(i) ==
    [type |-> SESSION_CLOSED, hash |-> Undefined, queryId |-> Undefined,
     sessionId |-> SessionId(i), src |-> i]

\* C27: a step in which closeSession runs on an open channel posts exactly
\* session-closed with the session's sessionId, which the bus queues for
\* every other connected instance (so it was posted before the channel was
\* closed), and ends with the channel closed, the session's queue dropped
\* and the page still there; and no message is ever dispatched to a session
\* whose channel is closed.
C27_Step ==
    \A i \in Inst :
        /\ ( last'.op = "CloseSession" /\ last'.inst = i /\ chanOpen[i] )
           => /\ last'.posts = <<ExpectedClosed(i)>>
              /\ \A j \in Inst \ {i} :
                    Connected(j) =>
                        inbox'[j] = Append(inbox[j], ExpectedClosed(i))
              /\ ~chanOpen'[i]
              /\ inbox'[i] = <<>>
              /\ page'[i] = "loaded"
        /\ Delivered(i)' => chanOpen[i] /\ page[i] = "loaded"

C27_CloseSessionOrder == [][C27_Step]_vars

\* closeSession has just run on a session that had a message queued, the
\* window is still there (termination has not happened), the notification
\* is queued at a connected sibling and the session's own queue is dropped.
C27_Witness ==
    \E i \in Inst :
        /\ last.op = "CloseSession" /\ last.inst = i
        /\ page[i] = "loaded"
        /\ ~chanOpen[i]
        /\ inbox[i] = <<>>
        /\ \E j \in Inst \ {i} :
                /\ Connected(j)
                /\ inbox[j] # <<>>
                /\ inbox[j][Len(inbox[j])] = ExpectedClosed(i)

\* ------------------------------------------------------------------ C28
\* Message m is one the claim speaks of, for receiver i: a session-registered
\* or session-closed from another sessionId, a hash-claim that matches no
\* pending check of i, or a message of a type main.js has no case for.
Informational(i, m) ==
    \/ m.type \in {SESSION_REGISTERED, SESSION_CLOSED} /\ m.sessionId # SessionId(i)
    \/ m.type = SESSION_HASH_CLAIM
          /\ ~(claimListener[i] /\ m.queryId = queryId[i] /\ m.hash = sessionHash[i])
    \/ m.type \notin {SESSION_HASH_QUERY, SESSION_HASH_CLAIM,
                      SESSION_REGISTERED, SESSION_CLOSED}

\* C28: a step that dispatches such a message to a connected session leaves
\* its isVerified and isClosingAsDuplicate (and its check, its timers and its
\* channel) unchanged and posts nothing.
C28_Step ==
    \A i \in Inst :
        ( /\ Connected(i)
          /\ inbox[i] # <<>>
          /\ Informational(i, Head(inbox[i]))
          /\ Delivered(i)' )
        => /\ last'.event = Head(inbox[i])
           /\ last'.posts = <<>>
           /\ isVerified'[i] = isVerified[i]
           /\ isClosingAsDuplicate'[i] = isClosingAsDuplicate[i]
           /\ resolveCalls'[i] = resolveCalls[i]
           /\ claimListener'[i] = claimListener[i]
           /\ closeTimer'[i] = closeTimer[i]
           /\ chanOpen'[i] = chanOpen[i]

C28_InformationalIgnored == [][C28_Step]_vars

\* A message of a type without a case has just been dispatched to a session
\* whose check is pending.
C28_Witness ==
    \E i \in Inst :
        /\ Delivered(i)
        /\ last.event.type = BROADCAST
        /\ last.branch = "ignored"
        /\ checkTimer[i] = "pending"
        /\ claimListener[i]
        /\ Outcome(i) = "pending"

\* ------------------------------------------------------------------ C29
\* The hash-query of instance i, as the bus carries it.
ExpectedQuery(i) ==
    [type |-> SESSION_HASH_QUERY, hash |-> sessionHash[i],
     queryId |-> queryId[i], sessionId |-> Undefined, src |-> i]

\* C29: a step posts a hash-query only when a page loads, and the load of a
\* page posts exactly one, carrying the page's sessionHash, as the first
\* message of the session; a page loads once (it never returns to the state
\* before its load), so each session posts exactly one hash-query.
C29_Step ==
    /\ Posted(SESSION_HASH_QUERY)' => last'.op = "Start"
    /\ \A i \in Inst :
        /\ last'.op = "Start" /\ last'.inst = i =>
                /\ page[i] = "none"
                /\ page'[i] = "loaded"
                /\ last'.posts = <<ExpectedQuery(i)'>>
        /\ page[i] = "none" /\ last'.inst = i => last'.op = "Start"
        /\ page[i] # "none" => page'[i] # "none"

C29_OneQueryAtStartup == [][C29_Step]_vars

\* A page has just loaded next to a connected session with the same hash,
\* which has the page's hash-query at the end of its queue.
C29_Witness ==
    \E i \in Inst :
        /\ last.op = "Start" /\ last.inst = i
        /\ last.posts = <<ExpectedQuery(i)>>
        /\ \E j \in Inst \ {i} :
                /\ Connected(j)
                /\ sessionHash[j] = sessionHash[i]
                /\ inbox[j] # <<>>
                /\ inbox[j][Len(inbox[j])] = ExpectedQuery(i)

\* ------------------------------------------------------------------ C30
\* C30: each dispatch of a hash-query for its hash to a connected verified
\* session adds exactly one hash-claim to the queue of every other connected
\* instance, whether or not the queryId was answered before (so k deliveries
\* produce k claims); and a matching claim dispatched to a querier whose
\* check has already resolved changes nothing of the querier.
C30_Step ==
    \A i \in Inst :
        /\ ( /\ Connected(i)
             /\ isVerified[i]
             /\ inbox[i] # <<>>
             /\ Head(inbox[i]).type = SESSION_HASH_QUERY
             /\ Head(inbox[i]).hash = sessionHash[i]
             /\ Delivered(i)' )
           => /\ Len(last'.posts) = 1
              /\ last'.posts[1].type = SESSION_HASH_CLAIM
              /\ last'.posts[1].queryId = Head(inbox[i]).queryId
              /\ \A j \in Inst \ {i} :
                    Connected(j) => inbox'[j] = inbox[j] \o last'.posts
        /\ ( /\ Outcome(i) # "pending"
             /\ Delivered(i)'
             /\ last'.event.type = SESSION_HASH_CLAIM
             /\ last'.event.queryId = queryId[i]
             /\ last'.event.hash = sessionHash[i] )
           => /\ resolveCalls'[i] = resolveCalls[i]
              /\ closeAsDuplicateRuns'[i] = closeAsDuplicateRuns[i]
              /\ closeTimer'[i] = closeTimer[i]
              /\ isClosingAsDuplicate'[i] = isClosingAsDuplicate[i]

C30_OneClaimPerQuery == [][C30_Step]_vars

\* An owner has just answered a second hash-query with the same queryId: a
\* connected querier has two claims of that owner with one queryId queued.
C30_Witness ==
    \E i \in Inst :
        /\ Delivered(i)
        /\ Posted(SESSION_HASH_CLAIM)
        /\ \E j \in Inst \ {i} :
                /\ Connected(j)
                /\ queryId[j] = last.event.queryId
                /\ \E k, l \in 1..Len(inbox[j]) :
                        /\ k < l
                        /\ inbox[j][k] = last.posts[1]
                        /\ inbox[j][l] = last.posts[1]

\* ------------------------------------------------------------------ C21
\* C21 (controller demo, targeting): a step in which a tab's channel
\* dispatches a direct-message or a close-session whose targetSession is not
\* the tab's sessionId arms no close timer, changes nothing of the tab but
\* its queue, posts nothing and reaches no other page.
C21_Step ==
    \A t \in Tabs :
        ( /\ TabConnected(t)
          /\ tabInbox[t] # <<>>
          /\ Head(tabInbox[t]).type \in {DIRECT_MESSAGE, CLOSE_SESSION}
          /\ Head(tabInbox[t]).targetSession # tabSessionId[t]
          /\ demoLast'.op = "TabDeliver" /\ demoLast'.tab = t )
        => /\ demoLast'.event = Head(tabInbox[t])
           /\ demoLast'.posts = <<>>
           /\ tabCloseTimer' = tabCloseTimer
           /\ tabChanOpen' = tabChanOpen
           /\ tabPage' = tabPage
           /\ tabPostError' = tabPostError
           /\ tabSessionId' = tabSessionId
           /\ ctrlInbox' = ctrlInbox
           /\ tabInbox' = [tabInbox EXCEPT ![t] = Tail(@)]

C21_TargetedOnly == [][C21_Step]_allVars

\* A close-session for another session has just been dispatched to a
\* connected tab, whose sibling is the one targeted.
C21_Witness ==
    \E t \in Tabs :
        /\ demoLast.op = "TabDeliver" /\ demoLast.tab = t
        /\ demoLast.event.type = CLOSE_SESSION
        /\ demoLast.event.targetSession # tabSessionId[t]
        /\ TabConnected(t)
        /\ tabCloseTimer[t] = 0
        /\ \E u \in Tabs \ {t} :
                /\ tabPage[u] = "loaded"
                /\ tabSessionId[u] = demoLast.event.targetSession

\* ------------------------------------------------------------------ C22
\* The ids whose last lifecycle message processed by the running controller
\* is session-registered.
LastRegistered == {id \in SessionIds : lifecycle[id] = "registered"}

C22_Step ==
    ( /\ demoLast'.op = "CtrlDeliver"
      /\ ctrlInbox # <<>>
      /\ Head(ctrlInbox).type \in {SESSION_MESSAGE, SESSION_PING} )
    => activeSessions' = activeSessions

\* C22 (controller demo, session tracking): at every moment activeSessions
\* is exactly the set of ids whose most recently processed lifecycle message
\* is session-registered; and a step in which the controller processes a
\* session-message or a session-ping (for a listed id or not) leaves
\* activeSessions as it was.
C22_TracksLifecycle ==
    /\ [](activeSessions = LastRegistered)
    /\ [][C22_Step]_allVars

\* The controller has just processed a ping for an id that is not listed
\* while another id is.
C22_Witness ==
    /\ demoLast.op = "CtrlDeliver"
    /\ demoLast.event.type = SESSION_PING
    /\ demoLast.event.sessionId \notin activeSessions
    /\ activeSessions # {}

\* ------------------------------------------------------------------ C23
\* session-closed as posted by tab t
ExpectedTabClosed(t) ==
    [type |-> SESSION_CLOSED, source |-> "", sessionId |-> tabSessionId[t],
     targetSession |-> Undefined, from |-> t]

C23_Step ==
    \A t \in Tabs :
        ( tabChanOpen[t] /\ ~tabChanOpen'[t] )
        => /\ demoLast'.op \in {"TabCloseSession", "TabCloseTimerFire", "TabUnload"}
           /\ demoLast'.tab = t
           /\ demoLast'.posts = <<ExpectedTabClosed(t)>>
           /\ CtrlConnected => ctrlInbox' = Append(ctrlInbox, ExpectedTabClosed(t))
           /\ \A u \in Tabs \ {t} :
                TabConnected(u) => tabInbox'[u] = Append(tabInbox[u], ExpectedTabClosed(t))

\* The controller is connected and has a session-closed of id queued.
ClosedQueued(id) ==
    /\ CtrlConnected
    /\ \E k \in 1..Len(ctrlInbox) :
            ctrlInbox[k].type = SESSION_CLOSED /\ ctrlInbox[k].sessionId = id

\* The controller has just processed a session-closed of id and does not
\* list the id.
ClosedHandled(id) ==
    /\ demoLast.op = "CtrlDeliver"
    /\ demoLast.event.type = SESSION_CLOSED
    /\ demoLast.event.sessionId = id
    /\ id \notin activeSessions

\* C23 (controller demo, close detection): every step in which a tab's
\* channel goes from open to closed is a close button click, a close timer
\* armed by close-session or close-all, or the page's unload, and posts
\* session-closed with the tab's sessionId to every page connected at that
\* moment, the controller included; and a session-closed queued at a
\* connected controller leads to the controller processing it and not
\* listing the id, unless the controller page unloads first.
C23_CloseDetected ==
    /\ [][C23_Step]_allVars
    /\ \A id \in SessionIds :
            ClosedQueued(id) ~> (ClosedHandled(id) \/ ~CtrlConnected)

\* The controller has just removed, on its session-closed, the id of a tab
\* that ran closeSession and whose page is still there.
C23_Witness ==
    \E t \in Tabs :
        /\ ClosedHandled(tabSessionId[t])
        /\ demoLast.event.from = t
        /\ tabPage[t] = "loaded"
        /\ ~tabChanOpen[t]
        /\ CtrlConnected

\* ------------------------------------------------------------------ C24
\* The last step posted a session-registered.
RegisteredPosted ==
    \E k \in 1..Len(demoLast.posts) : demoLast.posts[k].type = SESSION_REGISTERED

C24_Step ==
    \A t \in Tabs :
        ( tabCloseTimer[t] > 0 /\ tabChanOpen[t] /\ ~tabChanOpen'[t] )
        => demoLast'.posts = <<ExpectedTabClosed(t)>>

\* C24 (controller demo, close-all): a tab to which close-all has been
\* dispatched disconnects (closeSession run by the timer, unless a click or
\* the unload did it first), and the step that disconnects it posts
\* session-closed; and after the controller posts close-all, activeSessions
\* becomes empty unless a session-registered is posted afterwards or the
\* controller page unloads.
C24_CloseAllEmpties ==
    /\ [][C24_Step]_allVars
    /\ \A t \in Tabs :
            ( /\ demoLast.op = "TabDeliver" /\ demoLast.tab = t
              /\ demoLast.branch = "close-all" )
            ~> ~TabConnected(t)
    /\ (demoLast.op = "CloseAllSessions")
            ~> (activeSessions = {} \/ RegisteredPosted \/ ~CtrlConnected)

\* After a close-all that reached two listed, connected tabs, the controller
\* has just processed the last session-closed and lists nothing.
C24_Witness ==
    /\ demoLast.op = "CtrlDeliver"
    /\ demoLast.event.type = SESSION_CLOSED
    /\ activeSessions = {}
    /\ CtrlConnected
    /\ ctrlInbox = <<>>
    /\ \A t \in Tabs : tabPage[t] = "loaded" /\ ~tabChanOpen[t] /\ ~tabPostError[t]
    /\ \E t, u \in Tabs : tabSessionId[t] # tabSessionId[u]

\* ------------------------------------------------------------------ C31
\* session-registered as posted by tab t
ExpectedTabRegistered(t) ==
    [type |-> SESSION_REGISTERED, source |-> "", sessionId |-> tabSessionId[t],
     targetSession |-> Undefined, from |-> t]

C31_Step ==
    \A t \in Tabs :
        ( /\ TabConnected(t)
          /\ tabInbox[t] # <<>>
          /\ Head(tabInbox[t]).type = CONTROLLER_READY
          /\ demoLast'.op = "TabDeliver" /\ demoLast'.tab = t )
        => /\ demoLast'.posts = <<ExpectedTabRegistered(t)>>
           /\ CtrlConnected =>
                ctrlInbox' = Append(ctrlInbox, ExpectedTabRegistered(t))

\* C31 (controller demo, re-registration): a step in which a connected tab
\* is dispatched controller-ready posts session-registered with the tab's
\* sessionId, which is queued at the connected controller; and a tab that is
\* connected when the controller page loads has its id in activeSessions
\* later on, unless the tab disconnects or the controller unloads first.
C31_ReRegistration ==
    /\ [][C31_Step]_allVars
    /\ \A t \in Tabs :
            ( demoLast.op = "CtrlStart" /\ TabConnected(t) )
            ~> ( \/ tabSessionId[t] \in activeSessions
                 \/ ~TabConnected(t)
                 \/ ~CtrlConnected )

\* The reloaded controller, which has launched nothing itself, has just
\* listed a still connected tab on its session-registered.
C31_Witness ==
    \E t \in Tabs :
        /\ demoLast.op = "CtrlDeliver"
        /\ demoLast.event = ExpectedTabRegistered(t)
        /\ ctrlLoads = 2
        /\ sessionCounter = 0
        /\ TabConnected(t)
        /\ tabSessionId[t] \in activeSessions

\* ------------------------------------------------------------------ C32
\* C32: a close button click that posts session-closed is a click on a
\* session that is verified (only a verified session has posted
\* session-registered).  The code does not keep this: closeSession posts
\* whatever the state of the check.
C32_ClosedOnlyAfterRegistered ==
    \A i \in Inst :
        ( last.op = "CloseSession" /\ last.inst = i /\ Posted(SESSION_CLOSED) )
        => isVerified[i]

\* ------------------------------------------------------------------ C33
\* C33: a timeout that fires on a session whose channel is already closed
\* leaves the session unverified.  The code does not keep this when
\* closeSession closed the channel during the check.
C33_ClosedNeverVerified ==
    \A i \in Inst :
        ( last.op = "TimeoutFire" /\ last.inst = i /\ ~chanOpen[i] )
        => ~isVerified[i]

\* ------------------------------------------------------------------ C34
\* C34: no postMessage is ever called on a closed channel (the call throws).
\* The code does not keep this.
C34_NoPostAfterClose == \A i \in Inst : ~postError[i]

\* ------------------------------------------------------------------ C35
\* C35: a step in which an instance posts session-closed posts exactly one
\* message, on a channel that is open before the step and closed after it;
\* and the channel of a page that has loaded, once closed, is never open
\* again: so an instance delivers at most one session-closed to the bus.
C35_Step ==
    \A i \in Inst :
        /\ ( Posted(SESSION_CLOSED)' /\ last'.inst = i )
           => /\ chanOpen[i]
              /\ ~chanOpen'[i]
              /\ Len(last'.posts) = 1
        /\ ( page[i] # "none" /\ ~chanOpen[i] ) => ~chanOpen'[i]

C35_AtMostOneClosed == [][C35_Step]_vars

\* A page on which closeSession had run (session-closed posted, channel
\* closed) has just unloaded: the listener's postMessage threw and nothing
\* was published.
C35_Witness ==
    \E i \in Inst :
        /\ last.op = "BeforeUnload" /\ last.inst = i
        /\ last.posts = <<>>
        /\ postError[i]
        /\ page[i] = "gone"

\* ------------------------------------------------------------------ C36
\* C36: a message that handleMessage drops at its self-echo test was posted
\* by the receiving instance.  The code does not keep this: the test
\* compares sessionIds, which two instances with one hash share.
C36_DropsOnlyOwn ==
    \A i \in Inst :
        ( Delivered(i) /\ last.branch = "own" ) => last.event.src = i

\* ------------------------------------------------------------------ C37
\* C37 (controller demo): two tabs connected at the same time have different
\* sessionIds.  The code does not keep this across a controller reload.
C37_LaunchedIdsDistinct ==
    \A t, u \in Tabs :
        ( t # u /\ TabConnected(t) /\ TabConnected(u) )
        => tabSessionId[t] # tabSessionId[u]

====
